---- MODULE Spec2Model ----
(***************************************************************************)
(* Model of src/main.py: the interactive Tokopedia review harvester.       *)
(*                                                                         *)
(* Encoding of Python values:                                              *)
(*   - a JSON object (dict) is a record; an absent key is a field that is  *)
(*     not in the record's DOMAIN;                                         *)
(*   - a JSON array (list) is a sequence;                                  *)
(*   - Python None / JSON null is the record None;                         *)
(*   - a text that the program may later normalise is Str(s), s a sequence *)
(*     of one-character strings; other strings are TLA+ strings;           *)
(*   - a call either returns a value, Ret(v), or raises, Raise(e), where e *)
(*     is the name of the Python exception class that decides which        *)
(*     `except` clause catches it;                                         *)
(*   - a DataFrame is a sequence of rows, a row is a record keyed by       *)
(*     column name; a cell that pandas fills with NaN because the column   *)
(*     is missing from a concatenated frame is a field absent from the row.*)
(*                                                                         *)
(* The model starts after the bootstrap of lines 624-639 has succeeded,    *)
(* takes an interpreter that accepts line 612 (Python 3.12 or later), and  *)
(* takes the export directories to exist, so that to_csv does not fail.    *)
(* The variables marked "history" are not program state: they record what  *)
(* the run did, for the properties to speak about.                         *)
(***************************************************************************)
EXTENDS Integers, Sequences, FiniteSets, TLC

VARIABLES
    pc,         \* where the process is: "menu", "shop", "product", "category",
                \* "products" (inner loop of category mode), "crashed", "exited"
    mode,       \* the mode of the current or last run: "none", "shop", "product", "category"
    ident,      \* shop_id / product_id / category_id of the run
    pages,      \* operator-supplied page count of the run
    page,       \* loop variable `page`
    products,   \* category mode: products of the current search page not yet fetched
    category,   \* category mode: the Category resolved from the listing
    data_df,    \* the accumulated DataFrame (a local of __main__: gone when it returns)
    message,    \* the outcome the process printed for the run ("" when none yet)
    saved,      \* files written by to_csv during the run
    calls,      \* history: Query Executor calls issued during the run
    replies,    \* history: what each of those calls met, in the same order
    failure,    \* history: the exception that ended the run, "none" otherwise
    origin,     \* history: for each row of data_df, the page/product it was flattened from
    found,      \* history: ProductSummaries returned by the run's category searches
    earlier,    \* history: an earlier run of this session wrote a file with records
    fin,        \* flattener harness: the input handed to the flattener
    fout        \* flattener harness: the flattener's result

session == <<pc, mode, ident, pages, page, products, category, data_df, message, saved,
             calls, replies, failure, origin, found, earlier>>

vars == <<session, fin, fout>>

(***************************************************************************)
(* Bounds of the model.                                                    *)
(***************************************************************************)
MaxPages == 2       \* page counts the operator may enter: 0..MaxPages
MaxItems == 2       \* review items per response
MaxLen == 3         \* characters of a text handed to the clean-up harness

(***************************************************************************)
(* Python values.                                                          *)
(***************************************************************************)
None == [none |-> TRUE]
Str(s) == [str |-> s]
isinstance_str(x) == "str" \in DOMAIN x

Ret(v) == [exc |-> "none", val |-> v]
Raise(e) == [exc |-> e]
Raised(r) == r.exc # "none"

\* obj[key] on a dict-or-None value: TypeError on None, KeyError on a missing key.
GetItem(obj, key) ==
    IF obj = None THEN Raise("TypeError")
    ELSE IF key \in DOMAIN obj THEN Ret(obj[key])
    ELSE Raise("KeyError")

\* lst[0] on a list: IndexError when it is empty.
First(lst) == IF Len(lst) >= 1 THEN Ret(lst[1]) ELSE Raise("IndexError")

\* obj[k1][k2]...[kn], evaluated left to right; the first failing subscript raises.
RECURSIVE GetPath(_, _)
GetPath(obj, keys) ==
    IF keys = <<>> THEN Ret(obj)
    ELSE LET r == GetItem(obj, Head(keys))
         IN  IF Raised(r) THEN r ELSE GetPath(r.val, Tail(keys))

\* data[0][k1]...[kn]
Envelope(data, keys) ==
    LET e == First(data)
    IN  IF Raised(e) THEN e ELSE GetPath(e.val, keys)

\* [item[k1]...[kn] for item in review_list]: the first failing item raises.
Comprehension(review_list, keys) ==
    LET rs == [i \in 1..Len(review_list) |-> GetPath(review_list[i], keys)]
        bad == {i \in 1..Len(review_list) : Raised(rs[i])}
    IN  IF bad # {}
        THEN rs[CHOOSE i \in bad : \A j \in bad : i <= j]
        ELSE Ret([i \in 1..Len(review_list) |-> rs[i].val])

\* [value] in place of [value for _ in review_list]: the scalar is not repeated.
BroadcastOnce(review_list, value) == <<value>>

\* [value for _ in review_list]
Broadcast(review_list, value) == [i \in 1..Len(review_list) |-> value]

\* A dict display {k: expr, ...}: the entries are evaluated in order and the first
\* one that raises ends the evaluation. `entries` is a sequence of <<key, result>>.
DictOf(entries) ==
    LET bad == {i \in 1..Len(entries) : Raised(entries[i][2])}
    IN  IF bad # {}
        THEN entries[CHOOSE i \in bad : \A j \in bad : i <= j][2]
        ELSE Ret([k \in {entries[i][1] : i \in 1..Len(entries)} |->
                    (entries[CHOOSE i \in 1..Len(entries) : entries[i][1] = k][2]).val])

(***************************************************************************)
(* The Record Flattener: parse_shop and parse_product.                     *)
(***************************************************************************)
SHOP_KEY == "productrevGetShopReviewReadingList"
PRODUCT_KEY == "productrevGetProductReviewList"

parse_shop(data) ==
    LET review_list == Envelope(data, <<"data", SHOP_KEY, "list">>)
        shop_name == Envelope(data, <<"data", SHOP_KEY, "shopName">>)
    IN  IF Raised(review_list) THEN review_list
        ELSE IF Raised(shop_name) THEN shop_name
        ELSE LET l == review_list.val IN
             DictOf(<< <<"id", Comprehension(l, <<"id">>)>>,
                       <<"productID", Comprehension(l, <<"product", "productID">>)>>,
                       <<"productName", Comprehension(l, <<"product", "productName">>)>>,
                       <<"reviewerID", Comprehension(l, <<"reviewerID">>)>>,
                       <<"reviewerName", Comprehension(l, <<"reviewerName">>)>>,
                       <<"rating", Comprehension(l, <<"rating">>)>>,
                       <<"reviewText", Comprehension(l, <<"reviewText">>)>>,
                       <<"replyText", Comprehension(l, <<"replyText">>)>>,
                       <<"shopName", Ret(Broadcast(l, shop_name.val))>> >>)

\* The parameters of parse_product that have no default value.
Required == {"location", "price", "overall", "total"}

\* Python truthiness of the four values tested at line 152: a string is true
\* unless empty, a number is true unless zero.
Truthy(location, price, overall, total) ==
    location # "" /\ price # 0 /\ overall # 0 /\ total # 0

\* Line 148 with a slip: the identifier of the shop instead of the product's.
product_id_of_shop(data) == Envelope(data, <<"data", PRODUCT_KEY, "shop", "shopID">>)

\* Line 148: product_id, the page-level scalar of the response.
product_id_of(data) == Envelope(data, <<"data", PRODUCT_KEY, "productID">>)

\* parse_product(data, **kwargs): kwargs is the record of the arguments the call
\* site passes besides data. A call that leaves out a parameter without a default
\* raises TypeError before the body runs.
parse_product(data, kwargs) ==
    IF Required \ DOMAIN kwargs # {} THEN Raise("TypeError")
    ELSE
    LET name == IF "name" \in DOMAIN kwargs THEN kwargs.name ELSE ""
        review_list == Envelope(data, <<"data", PRODUCT_KEY, "list">>)
        product_id == product_id_of(data)
        shop_name == Envelope(data, <<"data", PRODUCT_KEY, "shop", "name">>)
    IN  IF Raised(review_list) THEN review_list
        ELSE IF Raised(product_id) THEN product_id
        ELSE IF Raised(shop_name) THEN shop_name
        ELSE LET l == review_list.val IN
             IF Truthy(kwargs.location, kwargs.price, kwargs.overall, kwargs.total)
             THEN DictOf(<< <<"id", Comprehension(l, <<"id">>)>>,
                       <<"productID", Ret(Broadcast(l, product_id.val))>>,
                       <<"productName", Ret(Broadcast(l, name))>>,
                       <<"location", Ret(Broadcast(l, kwargs.location))>>,
                       <<"price", Ret(Broadcast(l, kwargs.price))>>,
                       <<"overall", Ret(Broadcast(l, kwargs.overall))>>,
                       <<"total", Ret(Broadcast(l, kwargs.total))>>,
                       <<"reviewerID", Comprehension(l, <<"user", "userID">>)>>,
                       <<"reviewerName", Comprehension(l, <<"user", "fullName">>)>>,
                       <<"rating", Comprehension(l, <<"productRating">>)>>,
                       <<"reviewText", Comprehension(l, <<"message">>)>>,
                       <<"replyText", Comprehension(l, <<"reviewResponse", "message">>)>>,
                       <<"shopName", Ret(Broadcast(l, shop_name.val))>> >>)
             ELSE DictOf(<< <<"id", Comprehension(l, <<"id">>)>>,
                       <<"productID", Ret(Broadcast(l, product_id.val))>>,
                       <<"productName", Ret(Broadcast(l, name))>>,
                       <<"reviewerID", Comprehension(l, <<"user", "userID">>)>>,
                       <<"reviewerName", Comprehension(l, <<"user", "fullName">>)>>,
                       <<"rating", Comprehension(l, <<"productRating">>)>>,
                       <<"reviewText", Comprehension(l, <<"message">>)>>,
                       <<"replyText", Comprehension(l, <<"reviewResponse", "message">>)>>,
                       <<"shopName", Ret(Broadcast(l, shop_name.val))>> >>)

(***************************************************************************)
(* pandas: DataFrame.from_dict, pd.concat, and the text clean-up applied   *)
(* to the reviewText and replyText columns before export.                  *)
(***************************************************************************)
\* DataFrame.from_dict(cols): one row per index; arrays of unequal length raise
\* ValueError ("All arrays must be of the same length").
from_dict(cols) ==
    LET lens == {Len(cols[c]) : c \in DOMAIN cols}
    IN  IF Cardinality(lens) > 1 THEN Raise("ValueError")
        ELSE LET n == IF lens = {} THEN 0 ELSE CHOOSE k \in lens : TRUE
             IN  Ret([i \in 1..n |-> [c \in DOMAIN cols |-> cols[c][i]]])

\* pd.concat([frame, data_df]): the newest rows first.
concat_front(df, frame) == frame \o df

\* pd.concat([data_df, frame]): the rows of frame after the rows of data_df.
concat(df, frame) == df \o frame

\* x.replace(old, new, 1): only the first occurrence is replaced.
replace_first(s, old, new) ==
    [i \in 1..Len(s) |->
        IF s[i] = old /\ \A j \in 1..(i - 1) : s[j] # old THEN new ELSE s[i]]

\* x.replace("\n", " ").replace("\r", " ")
replace(s, old, new) == [i \in 1..Len(s) |-> IF s[i] = old THEN new ELSE s[i]]

\* lambda x: x.replace("\n", " ").replace("\r", " ") if isinstance(x, str) else x
clean(x) ==
    IF isinstance_str(x) THEN Str(replace(replace(x.str, "\n", " "), "\r", " ")) ELSE x

\* data_df[column] = data_df[column].apply(clean), on a column every row has.
apply_clean(df, column) ==
    [i \in 1..Len(df) |-> [df[i] EXCEPT ![column] = clean(@)]]

ShopColumns == <<"id", "productID", "productName", "reviewerID", "reviewerName",
                 "rating", "reviewText", "replyText", "shopName">>
CategoryColumns == <<"id", "productID", "productName", "location", "price", "overall",
                     "total", "reviewerID", "reviewerName", "rating", "reviewText",
                     "replyText", "shopName">>

(***************************************************************************)
(* The upstream service: the responses a Query Executor call may receive.  *)
(***************************************************************************)
\* Sequences over S of length at most n.
RECURSIVE SeqsUpTo(_, _)
SeqsUpTo(S, n) ==
    IF n = 0 THEN {<<>>}
    ELSE LET shorter == SeqsUpTo(S, n - 1)
         IN  shorter \cup {Append(q, x) : q \in {r \in shorter : Len(r) = n - 1}, x \in S}

Plain == <<"a">>
Lines == <<"a", "\n", "b", "\r">>

\* replyText of a shop review: a reply with line breaks, an empty reply, null.
Replies == {Str(Lines), Str(<<>>), None}

ShopItem(id, pid, reply) ==
    [id |-> id, product |-> [productID |-> pid, productName |-> "Kettle"],
     reviewerID |-> "u1", reviewerName |-> "Ann", rating |-> 5,
     reviewText |-> Str(Lines), replyText |-> reply]

\* A shop review whose replyText key is absent.
ShopItemNoReply(id, pid) ==
    [id |-> id, product |-> [productID |-> pid, productName |-> "Kettle"],
     reviewerID |-> "u1", reviewerName |-> "Ann", rating |-> 5,
     reviewText |-> Str(Lines)]

\* reviewResponse of a product review: an object with a message (possibly empty
\* or null), or null.
Responses == {[message |-> r] : r \in Replies} \cup {None}

ProductItem(id, response) ==
    [id |-> id, variantName |-> "", message |-> Str(Plain), productRating |-> 4,
     reviewResponse |-> response, user |-> [userID |-> "u2", fullName |-> "Bob"]]

\* A product review whose reviewResponse key is absent.
ProductItemNoResponse(id) ==
    [id |-> id, variantName |-> "", message |-> Str(Plain), productRating |-> 4,
     user |-> [userID |-> "u2", fullName |-> "Bob"]]

\* The decoded body of a ShopReviews / ProductReviews response with the expected
\* structure: [{"data": {<resource key>: {...}}}].
ShopPage(shopName, list) ==
    << [data |-> [k \in {SHOP_KEY} |-> [list |-> list, shopName |-> shopName]]] >>

ProductPage(productID, shopName, list) ==
    << [data |-> [k \in {PRODUCT_KEY} |->
          [productID |-> productID, list |-> list,
           shop |-> [shopID |-> "s1", name |-> shopName]]]] >>

\* Decoded bodies without the expected structure: the resource key is missing,
\* "data" is null, the resource is null, the array is empty.
Malformed(key) ==
    { << [data |-> [errors |-> None]] >>,
      << [data |-> None] >>,
      << [data |-> [k \in {key} |-> None]] >>,
      << >> }

(***************************************************************************)
(* Harness for the flattener as a pure function: the input is drawn from   *)
(* FlattenInputs, and one step applies parse_shop or parse_product and      *)
(* builds the frame from the columns.                                      *)
(***************************************************************************)
AllShopItems ==
    {ShopItem(id, pid, r) : id \in {"r1", "r2"}, pid \in {"p1", "p2"}, r \in Replies}
    \cup {ShopItemNoReply(id, pid) : id \in {"r1", "r2"}, pid \in {"p1", "p2"}}

AllProductItems ==
    {ProductItem(id, r) : id \in {"r1", "r2"}, r \in Responses}
    \cup {ProductItemNoResponse(id) : id \in {"r1", "r2"}}

\* The keyword arguments of the category-mode call (lines 584-591), over every
\* combination of true and false values, and of the product-mode call (line 508).
Contexts ==
    {[name |-> "Kettle", location |-> l, price |-> p, overall |-> o, total |-> t] :
        l \in {"", "Jakarta"}, p \in {0, 100}, o \in {0, 5}, t \in {0, 3}}

FlattenInputs ==
    {[kind |-> "shop", data |-> ShopPage("Acme", l)] : l \in SeqsUpTo(AllShopItems, MaxItems)}
    \cup {[kind |-> "shop", data |-> d] : d \in Malformed(SHOP_KEY)}
    \cup {[kind |-> "product", data |-> ProductPage("p1", "Acme", l), kwargs |-> c] :
            l \in SeqsUpTo(AllProductItems, MaxItems), c \in Contexts \cup {<<>>}}
    \cup {[kind |-> "product", data |-> d, kwargs |-> c] :
            d \in Malformed(PRODUCT_KEY), c \in Contexts}

NotRun == [exc |-> "not run"]

\* DataFrame.from_dict(parse(...)): the exception of the parse, or of from_dict.
Frame(cols) == IF Raised(cols) THEN cols ELSE from_dict(cols.val)

FlattenShop ==
    /\ pc = "flattener" /\ fout = NotRun /\ fin.kind = "shop"
    /\ fout' = [cols |-> parse_shop(fin.data), frame |-> Frame(parse_shop(fin.data))]
    /\ UNCHANGED <<session, fin>>

FlattenProduct ==
    /\ pc = "flattener" /\ fout = NotRun /\ fin.kind = "product"
    /\ fout' = [cols |-> parse_product(fin.data, fin.kwargs),
                frame |-> Frame(parse_product(fin.data, fin.kwargs))]
    /\ UNCHANGED <<session, fin>>

InitFlatten ==
    /\ pc = "flattener" /\ mode = "none"
    /\ ident = "" /\ pages = 0 /\ page = 0 /\ products = <<>> /\ category = None
    /\ data_df = <<>> /\ message = "" /\ saved = <<>>
    /\ calls = <<>> /\ replies = <<>> /\ failure = "none" /\ origin = <<>> /\ found = <<>>
    /\ earlier = FALSE
    /\ fin \in FlattenInputs
    /\ fout = NotRun

NextFlatten == FlattenShop \/ FlattenProduct

SpecFlatten == InitFlatten /\ [][NextFlatten]_vars

(***************************************************************************)
(* Harness for the text clean-up as a pure function: a cell value is drawn *)
(* from CleanInputs, one step applies the lambda of lines 462-466, and a   *)
(* second step applies it to the result.                                   *)
(***************************************************************************)
Characters == {"a", " ", "\n", "\r"}

\* What a reviewText or replyText cell may hold: a string, or None.
CleanInputs == {Str(t) : t \in SeqsUpTo(Characters, MaxLen)} \cup {None}

CleanOnce ==
    /\ pc = "cleaner" /\ fout = NotRun
    /\ fout' = [once |-> clean(fin.value)]
    /\ UNCHANGED <<session, fin>>

CleanTwice ==
    /\ pc = "cleaner" /\ DOMAIN fout = {"once"}
    /\ fout' = [once |-> fout.once, twice |-> clean(fout.once)]
    /\ UNCHANGED <<session, fin>>

InitClean ==
    /\ pc = "cleaner" /\ mode = "none"
    /\ ident = "" /\ pages = 0 /\ page = 0 /\ products = <<>> /\ category = None
    /\ data_df = <<>> /\ message = "" /\ saved = <<>>
    /\ calls = <<>> /\ replies = <<>> /\ failure = "none" /\ origin = <<>> /\ found = <<>>
    /\ earlier = FALSE
    /\ fin \in {[kind |-> "text", value |-> x] : x \in CleanInputs}
    /\ fout = NotRun

NextClean == CleanOnce \/ CleanTwice

SpecClean == InitClean /\ [][NextClean]_vars


(***************************************************************************)
(* The operator's keyboard input and the Query Executor.                   *)
(***************************************************************************)
\* What the operator types at a prompt: the decimal digits of n, or letters.
Typed(n) == [digits |-> n]
Letters == [letters |-> "abc"]

\* int(input(...)): ValueError unless the text is a number.
int(text) == IF "digits" \in DOMAIN text THEN Ret(text.digits) ELSE Raise("ValueError")

\* What a session.post(...) may meet: a transport failure, a body that is not
\* JSON, a body that decodes to `body`.
Transport == [kind |-> "transport"]
NotJSON == [kind |-> "notjson"]
JSON(body) == [kind |-> "json", body |-> body]

\* session.post(...).json(): requests raises a RequestException (an OSError) on a
\* transport failure, and a JSONDecodeError (a ValueError) on an undecodable body.
post_json(reply) ==
    CASE reply.kind = "transport" -> Raise("RequestException")
      [] reply.kind = "notjson" -> Raise("ValueError")
      [] OTHER -> Ret(reply.body)

\* One Query Executor call, as recorded in the history.
Call(kind, id, p) == [kind |-> kind, id |-> id, page |-> p]

\* fetch_product(id, page=1): the page a call site asks for when it passes none.
DefaultPage == 1

\* Replies to the calls of a run.
RunShopItems ==
    {ShopItem("r1", "p1", Str(Lines)), ShopItem("r2", "p2", None), ShopItemNoReply("r3", "p1")}

ShopReplies ==
    {Transport, NotJSON}
    \cup {JSON(ShopPage("Acme", l)) : l \in SeqsUpTo(RunShopItems, MaxItems)}
    \cup {JSON(d) : d \in Malformed(SHOP_KEY)}

\* Review lists of the ProductReviews replies of a run: empty, two reviews (one
\* without a reply message), one review whose reviewResponse is null.
RunProductLists ==
    { <<>>,
      <<ProductItem("r1", [message |-> Str(Lines)]), ProductItem("r2", [message |-> None])>>,
      <<ProductItem("r4", None)>> }

\* The service answers a request for product id with a page about id, or (one
\* reply) with a page about another product.
ProductReplies(id) ==
    {Transport, NotJSON}
    \cup {JSON(ProductPage(id, "Acme", l)) : l \in RunProductLists}
    \cup {JSON(ProductPage("p9", "Acme", <<ProductItem("r5", [message |-> None])>>))}
    \cup {JSON(<< [data |-> [errors |-> None]] >>)}

Categories ==
    << [id |-> 1, name |-> "Dapur", children |-> <<>>],
       [id |-> 2, name |-> "Buku", children |-> <<>>] >>

ListingReplies ==
    {Transport, NotJSON,
     JSON(<< [data |-> [categoryAllListLite |-> [categories |-> Categories]]] >>),
     JSON(<< [data |-> None] >>)}

Summary(id, name, location, priceInt, rating, countReview) ==
    [id |-> id, name |-> name, priceInt |-> priceInt, rating |-> rating,
     countReview |-> countReview, shop |-> [name |-> "Acme", location |-> location]]

\* Product summaries of a run: two ordinary products and one whose price is 0.
Kettle == Summary("p1", "Kettle", "Jakarta", 100, 5, 3)
Teapot == Summary("p2", "Teapot", "Bandung", 250, 4, 7)
Sample == Summary("p3", "Sample", "Jakarta", 0, 5, 3)

\* Product lists of the CategorySearch replies of a run.
RunSearchLists == { <<>>, <<Kettle>>, <<Kettle, Teapot>>, <<Sample, Kettle>> }

SearchPage(list) ==
    << [data |-> [CategoryProducts |-> [count |-> Len(list), data |-> list]]] >>

SearchReplies ==
    {Transport, NotJSON}
    \cup {JSON(SearchPage(l)) : l \in RunSearchLists}
    \cup {JSON(<< [data |-> [errors |-> None]] >>)}

(***************************************************************************)
(* Export.                                                                 *)
(***************************************************************************)
SHOP == "./shop"
PRODUCT == "./product"
CATEGORY == "./category"

\* How to_csv writes a text cell: None as the empty field, a string as itself.
csv_text(x) == IF isinstance_str(x) THEN x.str ELSE <<>>

\* data_df.to_csv(path, index=False): the file, its header and its lines.
to_csv(df, columns, dir, name) ==
    [dir |-> dir, name |-> name, columns |-> columns,
     rows |-> [i \in 1..Len(df) |->
                 [df[i] EXCEPT !["reviewText"] = csv_text(@), !["replyText"] = csv_text(@)]]]

\* Lines 461-476, 511-526, 596-613: clean both text columns, then write the file.
export(df, columns, dir, name) ==
    to_csv(apply_clean(apply_clean(df, "reviewText"), "replyText"), columns, dir, name)

(***************************************************************************)
(* The process: `while 1: __main__()`.                                     *)
(***************************************************************************)
InvalidShop == "Invalid input. Please enter a valid Shop ID."
InvalidCategory == "Invalid input. Please enter a valid Category ID."
DataSaved == "Data saved"
Traceback == "Traceback"

\* A frame kept from one call of __main__ to the next: a run begins with the
\* rows the last run wrote.
DataFrameKept(columns) == IF saved # <<>> THEN saved[Len(saved)].rows ELSE <<>>

\* pd.DataFrame(columns=[...]) (lines 440-452, 488-500, 551-567): no rows.
DataFrame(columns) == <<>>

\* The loop body in a `try: ... except Exception: continue`: the exception is
\* noted and the run goes on with what it has.
Skips(e, invalid) ==
    /\ failure' = e
    /\ UNCHANGED <<pc, message, data_df, products, origin>>

\* An exception e leaves the try block of a mode: `except ValueError` prints the
\* mode's message and __main__ returns to the loop; any other exception is not
\* caught anywhere and ends the process. Either way the locals are gone.
Ends(e, invalid) ==
    /\ pc' = IF e = "ValueError" THEN "menu" ELSE "crashed"
    /\ message' = IF e = "ValueError" THEN invalid ELSE Traceback
    /\ failure' = e
    /\ data_df' = <<>>
    /\ products' = <<>>
    /\ origin' = <<>>

\* A new call of __main__: nothing of the previous run is left.
Fresh(m) ==
    /\ mode' = m
    /\ saved' = <<>> /\ found' = <<>> /\ category' = None
    /\ calls' = <<>> /\ replies' = <<>>
    /\ earlier' = (earlier \/ (saved # <<>> /\ saved[Len(saved)].rows # <<>>))

Init ==
    /\ pc = "menu" /\ mode = "none"
    /\ ident = "" /\ pages = 0 /\ page = 0 /\ products = <<>> /\ category = None
    /\ data_df = <<>> /\ message = "" /\ saved = <<>>
    /\ calls = <<>> /\ replies = <<>> /\ failure = "none" /\ origin = <<>> /\ found = <<>>
    /\ earlier = FALSE
    /\ fin = [kind |-> "none"]
    /\ fout = NotRun

\* Line 431 with a choice that is not a number: int raises ValueError outside
\* every try block, so it leaves __main__ and the `while 1` loop.
ChooseInvalid ==
    /\ pc = "menu"
    /\ Raised(int(Letters))
    /\ Fresh("none")
    /\ pc' = "crashed" /\ message' = Traceback /\ failure' = int(Letters).exc
    /\ ident' = "" /\ pages' = 0 /\ page' = 0
    /\ data_df' = <<>> /\ products' = <<>> /\ origin' = <<>>
    /\ UNCHANGED <<fin, fout>>

\* Lines 433-620 with a number that matches no case: __main__ returns.
ChooseOther ==
    /\ pc = "menu"
    /\ \E n \in {0, 5} :
         /\ int(Typed(n)).val \notin {1, 2, 3, 9}
         /\ Fresh("none")
         /\ pc' = "menu" /\ message' = "" /\ failure' = "none"
         /\ ident' = "" /\ pages' = 0 /\ page' = 0
         /\ data_df' = <<>> /\ products' = <<>> /\ origin' = <<>>
    /\ UNCHANGED <<fin, fout>>

\* Lines 619-620: choice 9, exit(0).
ChooseExit ==
    /\ pc = "menu"
    /\ int(Typed(9)).val = 9
    /\ Fresh("none")
    /\ pc' = "exited" /\ message' = "" /\ failure' = "none"
    /\ ident' = "" /\ pages' = 0 /\ page' = 0
    /\ data_df' = <<>> /\ products' = <<>> /\ origin' = <<>>
    /\ UNCHANGED <<fin, fout>>

\* The page counts the operator may type, and letters.
PageEntries == {Typed(n) : n \in 0..MaxPages} \cup {Letters}

\* Lines 434-452 (choice 1) and 482-500 (choice 2): the identifier, the page
\* count, the empty frame.
Choose(m, id, entry, invalid) ==
    /\ pc = "menu"
    /\ Fresh(m)
    /\ ident' = id
    /\ LET n == int(entry)
       IN  IF Raised(n)
           THEN Ends(n.exc, invalid) /\ pages' = 0 /\ page' = 0
           ELSE /\ pc' = m /\ pages' = n.val /\ page' = 1
                /\ data_df' = DataFrame(ShopColumns) /\ products' = <<>> /\ origin' = <<>>
                /\ message' = "" /\ failure' = "none"
    /\ UNCHANGED <<fin, fout>>

ChooseShop == \E entry \in PageEntries : Choose("shop", "s1", entry, InvalidShop)

ChooseProduct == \E entry \in PageEntries : Choose("product", "p1", entry, InvalidShop)

\* range(1, pages) in place of range(1, pages + 1): the last page is left out.
LoopDoneEarly == page > pages - 1

\* `for page in range(1, pages + 1)` (lines 454, 502, 569) has run out.
LoopDone == page > pages

\* One iteration of a page loop of shop or product mode (lines 454-459, 502-509):
\* the fetch, the flattening, the concatenation. `frame` is the result of
\* DataFrame.from_dict(parse(fetch(...))), or the first exception on the way.
Iterate(call, reply, frame, invalid) ==
    /\ calls' = Append(calls, call)
    /\ replies' = Append(replies, reply)
    /\ IF Raised(frame)
       THEN Ends(frame.exc, invalid) /\ UNCHANGED page
       ELSE /\ data_df' = concat(data_df, frame.val)
            /\ origin' = origin \o
                 [i \in 1..Len(frame.val) |-> [page |-> page, call |-> Len(calls) + 1]]
            /\ page' = page + 1
            /\ UNCHANGED <<pc, message, failure, products>>
    /\ UNCHANGED <<mode, ident, pages, category, saved, found, earlier, fin, fout>>

ShopPageStep ==
    /\ pc = "shop" /\ ~LoopDone
    /\ \E reply \in ShopReplies :
         LET data == post_json(reply)
             cols == IF Raised(data) THEN data ELSE parse_shop(data.val)
         IN  Iterate(Call("ShopReviews", ident, page), reply, Frame(cols), InvalidShop)

\* Line 508 calls parse_product(data) with no other argument.
ProductPageStep ==
    /\ pc = "product" /\ ~LoopDone
    /\ \E reply \in ProductReplies(ident) :
         LET data == post_json(reply)
             cols == IF Raised(data) THEN data ELSE parse_product(data.val, <<>>)
         IN  Iterate(Call("ProductReviews", ident, page), reply, Frame(cols), InvalidShop)

\* After the loop: clean the text columns, write the file, report, return.
Export(columns, dir, name) ==
    /\ LoopDone
    /\ saved' = Append(saved, export(data_df, columns, dir, name))
    /\ message' = DataSaved
    /\ pc' = "menu"
    /\ data_df' = <<>>
    /\ UNCHANGED <<mode, ident, pages, page, products, category, calls, replies, failure,
                   origin, found, earlier, fin, fout>>

ShopExport == pc = "shop" /\ Export(ShopColumns, SHOP, <<ident>>)

ProductExport == pc = "product" /\ Export(ShopColumns, PRODUCT, <<ident>>)

\* Lines 532-567 (choice 3): the category listing, the category id, its
\* Category, the page count, the empty frame. Exceptions in program order.
CategoryEntries == {Typed(1), Typed(2), Typed(7), Letters}

\* The assignments of choice 3, given the results of int(category id), of the
\* lookup of the Category and of int(page count), each the first exception met
\* so far when one was raised.
EnterCategory(reply, category_id, chosen, n) ==
    /\ pc = "menu"
    /\ mode' = "category" /\ saved' = <<>> /\ found' = <<>>
    /\ calls' = <<[kind |-> "CategoryListing", filter |-> "buyer"]>>
    /\ replies' = <<reply>>
    /\ earlier' = (earlier \/ (saved # <<>> /\ saved[Len(saved)].rows # <<>>))
    /\ ident' = IF Raised(category_id) THEN "" ELSE category_id.val
    /\ category' = IF Raised(chosen) THEN None ELSE chosen.val
    /\ IF Raised(n)
       THEN Ends(n.exc, InvalidCategory) /\ pages' = 0 /\ page' = 0
       ELSE /\ pc' = "category" /\ pages' = n.val /\ page' = 1
            /\ data_df' = DataFrame(CategoryColumns) /\ products' = <<>> /\ origin' = <<>>
            /\ message' = "" /\ failure' = "none"
    /\ UNCHANGED <<fin, fout>>

ChooseCategory ==
    \E reply \in ListingReplies :
       LET data == post_json(reply)
           categories == IF Raised(data) THEN data
                         ELSE Envelope(data.val, <<"data", "categoryAllListLite", "categories">>)
       IN  IF Raised(categories) THEN EnterCategory(reply, categories, categories, categories)
           ELSE \E idEntry \in CategoryEntries :
                  LET category_id == int(idEntry)
                      chosen == IF Raised(category_id) THEN category_id
                                ELSE First(SelectSeq(categories.val,
                                                     LAMBDA c : c.id = category_id.val))
                  IN  IF Raised(chosen) THEN EnterCategory(reply, category_id, chosen, chosen)
                      ELSE \E entry \in PageEntries :
                             EnterCategory(reply, category_id, chosen, int(entry))

\* Lines 569-572: one category search; its products are then fetched one by one.
CategoryPageStep ==
    /\ pc = "category" /\ ~LoopDone
    /\ \E reply \in SearchReplies :
         LET data == post_json(reply)
             found_products == IF Raised(data) THEN data
                               ELSE Envelope(data.val, <<"data", "CategoryProducts", "data">>)
         IN  /\ calls' = Append(calls, Call("CategorySearch", ident, page))
             /\ replies' = Append(replies, reply)
             /\ IF Raised(found_products)
                THEN Ends(found_products.exc, InvalidCategory) /\ UNCHANGED <<page, found>>
                ELSE /\ products' = found_products.val
                     /\ found' = found \o found_products.val
                     /\ pc' = IF found_products.val = <<>> THEN "category" ELSE "products"
                     /\ page' = IF found_products.val = <<>> THEN page + 1 ELSE page
                     /\ UNCHANGED <<data_df, origin, message, failure>>
    /\ UNCHANGED <<mode, ident, pages, category, saved, earlier, fin, fout>>

\* A `break` at the end of the loop body: the other products are never fetched.
RemainingNone(list) == <<>>

\* `for product in products` (line 574): what is left after this product.
Remaining(list) == Tail(list)

\* Lines 574-594: the next product of the search page: its first review page is
\* fetched, flattened with the summary's values, and concatenated.
CategoryProductStep ==
    /\ pc = "products"
    /\ LET product == Head(products)
           product_id == product.id
           product_name == product.name
       IN  \E reply \in ProductReplies(product_id) :
             LET product_data == post_json(reply)
                 cols == IF Raised(product_data) THEN product_data
                         ELSE parse_product(product_data.val,
                                [name |-> product_name,
                                 location |-> product.shop.location,
                                 price |-> product.priceInt,
                                 overall |-> product.rating,
                                 total |-> product.countReview])
                 frame == Frame(cols)
             IN  /\ calls' = Append(calls, Call("ProductReviews", product_id, DefaultPage))
                 /\ replies' = Append(replies, reply)
                 /\ IF Raised(frame)
                    THEN Ends(frame.exc, InvalidCategory) /\ UNCHANGED page
                    ELSE /\ data_df' = concat(data_df, frame.val)
                         /\ origin' = origin \o
                              [i \in 1..Len(frame.val) |->
                                 [page |-> page, product |-> product, call |-> Len(calls) + 1]]
                         /\ products' = Remaining(products)
                         /\ pc' = IF Remaining(products) = <<>> THEN "category" ELSE "products"
                         /\ page' = IF Remaining(products) = <<>> THEN page + 1 ELSE page
                         /\ UNCHANGED <<message, failure>>
    /\ UNCHANGED <<mode, ident, pages, category, saved, found, earlier, fin, fout>>

CategoryExport == pc = "category" /\ Export(CategoryColumns, CATEGORY, <<ident, category.name>>)

Next ==
    \/ ChooseInvalid
    \/ ChooseOther
    \/ ChooseExit
    \/ ChooseShop
    \/ ShopPageStep
    \/ ShopExport
    \/ ChooseProduct
    \/ ProductPageStep
    \/ ProductExport
    \/ ChooseCategory
    \/ CategoryPageStep
    \/ CategoryProductStep
    \/ CategoryExport

Spec == Init /\ [][Next]_vars

(***************************************************************************)
(* Vocabulary of the properties.                                           *)
(***************************************************************************)
\* The reply decoded to an envelope that holds a non-null resource under `key`.
HasResource(reply, key) ==
    /\ reply.kind = "json"
    /\ Len(reply.body) >= 1
    /\ "data" \in DOMAIN reply.body[1]
    /\ reply.body[1].data # None
    /\ key \in DOMAIN reply.body[1].data
    /\ reply.body[1].data[key] # None

ResourceOf(reply, key) == reply.body[1].data[key]

\* A shop review with every field but, possibly, the reply.
ShopItemButReply(item) ==
    {"id", "product", "reviewerID", "reviewerName", "rating", "reviewText"} \subseteq DOMAIN item

\* A product review with every field but, possibly, the seller's response.
ProductItemButReply(item) ==
    {"id", "message", "productRating", "user"} \subseteq DOMAIN item

ShopItemHasReplyField(item) == "replyText" \in DOMAIN item

ProductItemHasReplyField(item) ==
    /\ "reviewResponse" \in DOMAIN item
    /\ item.reviewResponse # None
    /\ "message" \in DOMAIN item.reviewResponse

\* The item carries no seller reply: the reply field is null or absent.
ShopItemNoSellerReply(item) == ~ShopItemHasReplyField(item) \/ item.replyText = None

ProductItemNoSellerReply(item) ==
    ~ProductItemHasReplyField(item) \/ item.reviewResponse.message = None

\* A well-formed page: the resource, its scalars, and complete items.
WellFormedShop(reply) ==
    /\ HasResource(reply, SHOP_KEY)
    /\ {"list", "shopName"} \subseteq DOMAIN ResourceOf(reply, SHOP_KEY)
    /\ \A i \in DOMAIN ResourceOf(reply, SHOP_KEY).list :
         LET item == ResourceOf(reply, SHOP_KEY).list[i]
         IN  ShopItemButReply(item) /\ ShopItemHasReplyField(item)

WellFormedProduct(reply) ==
    /\ HasResource(reply, PRODUCT_KEY)
    /\ {"list", "productID", "shop"} \subseteq DOMAIN ResourceOf(reply, PRODUCT_KEY)
    /\ \A i \in DOMAIN ResourceOf(reply, PRODUCT_KEY).list :
         LET item == ResourceOf(reply, PRODUCT_KEY).list[i]
         IN  ProductItemButReply(item) /\ ProductItemHasReplyField(item)

\* The calls of one kind, in the order they were issued.
CallsOf(kind) == SelectSeq(calls, LAMBDA c : c.kind = kind)

\* The rows of the run: the frame while it is accumulated, the file once written.
Dataset == IF saved # <<>> THEN saved[Len(saved)].rows ELSE data_df

\* The run has gone through without an exception so far.
Unfailed == failure = "none" /\ pc \in {"shop", "product", "category", "products", "menu"}

\* The run has completed and written its file.
Exported == message = DataSaved /\ saved # <<>>

(***************************************************************************)
(* C1. A shop-mode run with page count k in which nothing fails issues     *)
(* ShopReviews calls for the pages 1, 2, ... in that order, one per loop   *)
(* iteration, and has issued exactly k of them when it completes, whether  *)
(* or not a page came back with an empty review list.                      *)
(***************************************************************************)
C1_FixedCountPagination ==
    (mode = "shop" /\ Unfailed) =>
        /\ page <= pages + 1
        /\ calls = [i \in 1..(page - 1) |-> Call("ShopReviews", ident, i)]
        /\ (Exported => Len(calls) = pages)

\* A completed two-page run whose first page was empty: both calls were issued
\* and every record comes from page 2.
C1_Witness ==
    /\ mode = "shop" /\ Exported /\ pages = 2
    /\ Len(calls) = 2
    /\ ResourceOf(replies[1], SHOP_KEY).list = <<>>
    /\ Dataset # <<>>
    /\ \A i \in DOMAIN origin : origin[i].page = 2

(***************************************************************************)
(* C2. A product-mode run with page count k >= 1 in which every            *)
(* ProductReviews call returns a well-formed page goes through without an  *)
(* exception; once it has completed, its file holds one record per review  *)
(* item of each page, with productID and shopName taken from the page,     *)
(* productName empty and no location, price, overall or total value.       *)
(***************************************************************************)
C2_ProductModeCompletes ==
    (/\ mode = "product" /\ pages >= 1
     /\ \A i \in DOMAIN replies : WellFormedProduct(replies[i])) =>
        /\ failure = "none"
        /\ pc # "crashed"
        /\ Exported =>
             /\ Len(replies) = pages
             /\ \A i \in DOMAIN Dataset :
                  LET page_i == ResourceOf(replies[origin[i].call], PRODUCT_KEY)
                  IN  /\ Dataset[i].productID = page_i.productID
                      /\ Dataset[i].shopName = page_i.shop.name
                      /\ Dataset[i].productName = ""
                      /\ DOMAIN Dataset[i] \cap {"location", "price", "overall", "total"} = {}

(***************************************************************************)
(* C3. In category mode every record carries the location, price, overall  *)
(* and total of the ProductSummary of the product it was fetched for (shop  *)
(* location, priceInt, rating, countReview), whatever those values are,    *)
(* 0 and the empty string included.                                        *)
(***************************************************************************)
C3_BroadcastFromSummary ==
    mode = "category" =>
        \A i \in DOMAIN Dataset :
            LET row == Dataset[i]
                summary == origin[i].product
            IN  /\ {"location", "price", "overall", "total"} \subseteq DOMAIN row
                /\ row.location = summary.shop.location
                /\ row.price = summary.priceInt
                /\ row.overall = summary.rating
                /\ row.total = summary.countReview

(***************************************************************************)
(* C4. In category mode a failure of the review fetch of one product, or   *)
(* of its flattening, does not end the run: the product is skipped and the *)
(* run goes on to the remaining products and pages.                        *)
(***************************************************************************)
C4_FailedProductIsSkipped ==
    (/\ mode = "category" /\ calls # <<>>
     /\ calls[Len(calls)].kind = "ProductReviews"
     /\ ~WellFormedProduct(replies[Len(replies)])) =>
        /\ failure = "none"
        /\ pc \in {"category", "products", "menu"}

(***************************************************************************)
(* The flattener's input in the harness, as a reply, and its pieces.       *)
(***************************************************************************)
FinReply == [kind |-> "json", body |-> fin.data]
FinKey == IF fin.kind = "shop" THEN SHOP_KEY ELSE PRODUCT_KEY
FinList == ResourceOf(FinReply, FinKey).list

\* The flattener has been applied, by a call that passes every required argument.
Flattened ==
    /\ pc = "flattener" /\ fout # NotRun
    /\ fin.kind = "product" => Required \subseteq DOMAIN fin.kwargs

\* The page is well formed but for the reply fields of its items.
FinPageButReplies ==
    /\ HasResource(FinReply, FinKey)
    /\ \A i \in DOMAIN FinList :
         IF fin.kind = "shop" THEN ShopItemButReply(FinList[i])
         ELSE ProductItemButReply(FinList[i])

FinNoSellerReply(i) ==
    IF fin.kind = "shop" THEN ShopItemNoSellerReply(FinList[i])
    ELSE ProductItemNoSellerReply(FinList[i])

FinWellFormed ==
    IF fin.kind = "shop" THEN WellFormedShop(FinReply) ELSE WellFormedProduct(FinReply)

(***************************************************************************)
(* C5. Flattening a ShopReviews or ProductReviews page in which an item    *)
(* has no seller reply (its reply field is null or absent) succeeds, and   *)
(* the record of that item has replyText = null; an item whose reply is    *)
(* present gets that reply, so null is kept apart from the empty string.   *)
(***************************************************************************)
C5_NoReplyIsNull ==
    (Flattened /\ FinPageButReplies) =>
        /\ ~Raised(fout.frame)
        /\ Len(fout.frame.val) = Len(FinList)
        /\ \A i \in DOMAIN FinList :
             IF FinNoSellerReply(i) THEN fout.frame.val[i].replyText = None
             ELSE fout.frame.val[i].replyText # None

(***************************************************************************)
(* C6. When the operator types a mode choice or a page count that is not a *)
(* number, the attempt is abandoned with a message, no file is written,    *)
(* and the process is back at the mode menu, still running.                *)
(***************************************************************************)
\* The run ended on a ValueError that no reply caused: int() raised it.
InvalidOperatorInput == failure = "ValueError" /\ \A i \in DOMAIN replies : replies[i] # NotJSON

C6_InvalidInputReturnsToMenu ==
    InvalidOperatorInput =>
        /\ pc = "menu"
        /\ message \in {InvalidShop, InvalidCategory}
        /\ saved = <<>>

(***************************************************************************)
(* C7. In shop mode, a reply that lacks the expected top-level resource    *)
(* key, or is otherwise not of the expected structure (a body that is not  *)
(* JSON included), ends the run with a fatal error that is not reported as *)
(* invalid operator input and is not swallowed; a reply that holds the     *)
(* resource with an empty review list is valid, adds no record, and the    *)
(* run goes on.                                                            *)
(***************************************************************************)
C7_SchemaMismatchIsFatal ==
    (mode = "shop" /\ replies # <<>>) =>
        LET last == replies[Len(replies)]
        IN  /\ (last = NotJSON \/ (last.kind = "json" /\ ~HasResource(last, SHOP_KEY))) =>
                  /\ failure # "none"
                  /\ pc = "crashed"
                  /\ message \notin {InvalidShop, InvalidCategory}
            /\ (WellFormedShop(last) /\ ResourceOf(last, SHOP_KEY).list = <<>>) =>
                  /\ failure = "none"
                  /\ \A i \in DOMAIN origin : origin[i].call # Len(replies)
                  /\ page = Len(replies) + 1

FoundIds == {found[j].id : j \in DOMAIN found}

C9_NoFabricatedProducts ==
    mode = "category" => \A i \in DOMAIN Dataset : Dataset[i].productID \in FoundIds

(***************************************************************************)
(* C9, as amended. In a category-mode run every accumulated record comes   *)
(* from the reply to a ProductReviews call issued for a product that a     *)
(* category search of the run returned, and its productID is the           *)
(* page-level productID of that reply; so it is one of the identifiers the *)
(* searches returned whenever the reply carries the identifier it was      *)
(* asked for.                                                              *)
(***************************************************************************)
C9_ProductIDFromReply ==
    mode = "category" =>
        /\ Len(origin) = Len(Dataset)
        /\ \A i \in DOMAIN Dataset :
             LET asked == calls[origin[i].call]
                 reply == ResourceOf(replies[origin[i].call], PRODUCT_KEY)
             IN  /\ asked.kind = "ProductReviews"
                 /\ asked.id \in FoundIds
                 /\ Dataset[i].productID = reply.productID
                 /\ reply.productID = asked.id => Dataset[i].productID \in FoundIds

\* A completed category run whose file holds a record of a product the search
\* returned and a record of a product it did not return.
C9_Witness ==
    /\ mode = "category" /\ Exported
    /\ \E i \in DOMAIN Dataset : Dataset[i].productID \in FoundIds
    /\ \E i \in DOMAIN Dataset : Dataset[i].productID \notin FoundIds

(***************************************************************************)
(* C10. A category-mode run with page count p in which nothing fails       *)
(* issues CategorySearch calls for the pages 1, 2, ... in order, exactly p *)
(* of them when it completes, and for each ProductSummary those calls      *)
(* returned exactly one ProductReviews call, in the order returned, always *)
(* for review page 1; so with at most m products per search page there are *)
(* at most p * m review calls.                                             *)
(***************************************************************************)
\* The search pages begun so far.
Searched == IF pc = "products" THEN page ELSE page - 1

\* The largest number of products a search reply of the run returned.
MostProducts ==
    LET sizes == {Len(ResourceOf(replies[i], "CategoryProducts").data) :
                    i \in {j \in DOMAIN calls : calls[j].kind = "CategorySearch"}}
    IN  IF sizes = {} THEN 0 ELSE CHOOSE n \in sizes : \A k \in sizes : k <= n

C10_BoundedFanOut ==
    (mode = "category" /\ Unfailed) =>
        /\ CallsOf("CategorySearch") = [i \in 1..Searched |-> Call("CategorySearch", ident, i)]
        /\ CallsOf("ProductReviews") =
             [j \in 1..(Len(found) - Len(products)) |-> Call("ProductReviews", found[j].id, 1)]
        /\ Len(CallsOf("ProductReviews")) <= Len(CallsOf("CategorySearch")) * MostProducts
        /\ Exported =>
             /\ Len(CallsOf("CategorySearch")) = pages
             /\ Len(CallsOf("ProductReviews")) = Len(found)
             /\ Len(CallsOf("ProductReviews")) <= pages * MostProducts

\* A completed two-page category run that found two products on one page and
\* one on the other, and issued three review calls.
C10_Witness ==
    /\ mode = "category" /\ Exported /\ pages = 2
    /\ Len(CallsOf("CategorySearch")) = 2
    /\ Len(found) = 3 /\ MostProducts = 2
    /\ Len(CallsOf("ProductReviews")) = 3

(***************************************************************************)
(* C11. The clean-up applied to reviewText and replyText before export     *)
(* replaces every newline and every carriage return by a space and leaves  *)
(* every other character where it is; applied to its own result it changes *)
(* nothing; and it returns None for None, not the empty string.            *)
(***************************************************************************)
C11_CleanIsIdempotentAndKeepsNull ==
    (pc = "cleaner" /\ fout # NotRun) =>
        /\ IF fin.value = None
           THEN fout.once = None /\ fout.once # Str(<<>>)
           ELSE /\ isinstance_str(fout.once)
                /\ Len(fout.once.str) = Len(fin.value.str)
                /\ \A i \in DOMAIN fin.value.str :
                     fout.once.str[i] =
                        IF fin.value.str[i] \in {"\n", "\r"} THEN " " ELSE fin.value.str[i]
        /\ "twice" \in DOMAIN fout => fout.twice = fout.once

\* A text with two newlines and a carriage return has been cleaned twice.
C11_Witness ==
    /\ pc = "cleaner" /\ "twice" \in DOMAIN fout
    /\ fin.value = Str(<<"\n", "\r", "\n">>)
    /\ fout.twice = Str(<<" ", " ", " ">>)

(***************************************************************************)
(* C12. While a run goes through, and in the file it writes, the data set  *)
(* is the concatenation, in the order the calls were issued, of the review *)
(* items of each review page fetched: one record per item, same order,     *)
(* nothing dropped and nothing merged, also when two pages hold the same   *)
(* review.                                                                 *)
(***************************************************************************)
\* The review items returned by the i-th call of the run, in reply order.
ItemsOfCall(i) ==
    IF calls[i].kind = "ShopReviews" THEN ResourceOf(replies[i], SHOP_KEY).list
    ELSE IF calls[i].kind = "ProductReviews" THEN ResourceOf(replies[i], PRODUCT_KEY).list
    ELSE <<>>

RECURSIVE FetchedItems(_)
FetchedItems(n) == IF n = 0 THEN <<>> ELSE FetchedItems(n - 1) \o ItemsOfCall(n)

\* The text of a review item, as the file holds it.
ItemText(item) == IF "reviewText" \in DOMAIN item THEN item.reviewText ELSE item.message

C12_ConcatenationInFetchOrder ==
    (Unfailed /\ mode \in {"shop", "category"}) =>
        LET items == FetchedItems(Len(calls))
        IN  /\ Len(Dataset) = Len(items)
            /\ \A i \in DOMAIN items :
                 /\ Dataset[i].id = items[i].id
                 /\ Dataset[i].reviewText =
                        IF saved # <<>> THEN csv_text(clean(ItemText(items[i])))
                        ELSE ItemText(items[i])

\* A completed category run over one search page of two products whose review
\* pages hold the same two reviews: four records, the first product's first.
C12_Witness ==
    /\ mode = "category" /\ Exported /\ pages = 1
    /\ Len(found) = 2
    /\ Len(calls) = 4
    /\ Len(ItemsOfCall(3)) = 2
    /\ ItemsOfCall(3) = ItemsOfCall(4)
    /\ Len(Dataset) = 4
    /\ Dataset[1].id = Dataset[3].id
    /\ Dataset[1].productID = found[1].id
    /\ Dataset[3].productID = found[2].id

(***************************************************************************)
(* C13. Once a CategoryListing call has been issued in a session, no later *)
(* selection of category mode issues another one: selecting category mode  *)
(* again at the menu reuses the listing already fetched.                   *)
(***************************************************************************)
\* The run the session has just been through issued a CategoryListing call.
ListingIssued == \E i \in DOMAIN calls : calls[i].kind = "CategoryListing"

C13_ListingOncePerSession == [][ListingIssued => ~ChooseCategory]_vars

(***************************************************************************)
(* C14. When a fetch or a flattening raises on page j of a run, the run is *)
(* over: the process is back at the menu or has ended, the calls issued    *)
(* are those up to page j and no more, and no file has been written. A     *)
(* file is written only by a run in which nothing failed, after the call   *)
(* of every page (and of every product found) has returned a page that was *)
(* flattened.                                                              *)
(***************************************************************************)
\* The run was ended by an exception.
FailedRun == failure # "none" /\ mode \in {"shop", "product", "category"}

\* The reply to the i-th call of the run carries the resource the call asked for.
Answered(i) ==
    IF calls[i].kind = "ShopReviews" THEN HasResource(replies[i], SHOP_KEY)
    ELSE IF calls[i].kind = "ProductReviews" THEN HasResource(replies[i], PRODUCT_KEY)
    ELSE IF calls[i].kind = "CategorySearch" THEN HasResource(replies[i], "CategoryProducts")
    ELSE HasResource(replies[i], "categoryAllListLite")

C14_FailureAbortsRun ==
    /\ FailedRun =>
         /\ pc \in {"menu", "crashed"}
         /\ saved = <<>>
         /\ mode \in {"shop", "product"} =>
              calls = [i \in 1..page |->
                         Call(IF mode = "shop" THEN "ShopReviews" ELSE "ProductReviews", ident, i)]
         /\ mode = "category" =>
              /\ CallsOf("CategorySearch") = [i \in 1..page |-> Call("CategorySearch", ident, i)]
              /\ Len(CallsOf("ProductReviews")) <= Len(found)
         /\ \A i \in 1..(Len(calls) - 1) : Answered(i)
    /\ saved # <<>> =>
         /\ failure = "none"
         /\ Len(saved) = 1
         /\ page = pages + 1
         /\ \A i \in DOMAIN calls : Answered(i)
         /\ mode \in {"shop", "product"} => Len(calls) = pages
         /\ mode = "category" =>
              /\ Len(CallsOf("CategorySearch")) = pages
              /\ Len(CallsOf("ProductReviews")) = Len(found)

\* A two-page shop run whose first page held a review without a reply field:
\* the flattening raised, page 2 was never asked for, nothing was written.
C14_Witness ==
    /\ mode = "shop" /\ pages = 2 /\ failure = "KeyError"
    /\ Len(calls) = 1
    /\ HasResource(replies[1], SHOP_KEY)
    /\ pc = "crashed" /\ saved = <<>>

(***************************************************************************)
(* C15. Every run starts with an empty data set, whatever the session did  *)
(* before (a run that wrote a file, a run given up on a wrong input): as   *)
(* long as a run has issued no review call it holds no record, and every   *)
(* record it holds or writes was flattened from the reply to one of its    *)
(* own calls.                                                              *)
(***************************************************************************)
C15_RunStartsEmpty ==
    /\ (/\ pc \in {"shop", "product", "category", "products"}
        /\ CallsOf("ShopReviews") = <<>> /\ CallsOf("ProductReviews") = <<>>) =>
          data_df = <<>>
    /\ (Unfailed /\ mode \in {"shop", "product", "category"}) =>
          /\ Len(origin) = Len(Dataset)
          /\ \A i \in DOMAIN Dataset :
               /\ origin[i].call \in DOMAIN calls
               /\ \E j \in DOMAIN ItemsOfCall(origin[i].call) :
                    ItemsOfCall(origin[i].call)[j].id = Dataset[i].id

\* After a run of the session wrote a file with records, a zero-page shop run
\* issued no call and wrote a file without records.
C15_Witness ==
    /\ earlier
    /\ mode = "shop" /\ pages = 0 /\ Exported
    /\ calls = <<>>
    /\ Dataset = <<>>

====
